---- MODULE Spec2Model ----
(***************************************************************************)
(* Model of src/src/workout_template.py: the workout sheet layout          *)
(* (find_pairs_map, _draw_exercise_entry, render_workout_pdf).             *)
(*                                                                         *)
(* The canvas is modelled by what is drawn on it: the title draws (titles) *)
(* and the exercise rows (out), each with the page and the y coordinate it *)
(* was drawn at.  Coordinates are Python floats (IEEE-754 binary64); they  *)
(* are modelled exactly, because the page break test y < margin + 30 * mm  *)
(* is decided by the rounding of the float operations when y is nominally  *)
(* 42 mm.                                                                  *)
(***************************************************************************)
EXTENDS Integers, Sequences, FiniteSets, TLC

(***************************************************************************)
(* Bounds of the model.                                                    *)
(***************************************************************************)
\* exercise identifiers of the small workouts are 1..MaxId
MaxId == 4
\* longest exercise list of a small workout
MaxExLen == 4
\* most pair declarations of a small workout
MaxPairs == 2
\* the ints of the declarations that need not be well formed are 0..MaxDeclId
MaxDeclId == 2
\* long workouts: most blocks, and most partners of a block
MaxBlocks == 9
MaxPartners == 2

(***************************************************************************)
(* Python floats.  A float is <<a2, a1, a0>>, standing for                 *)
(* (a2 * FBase^2 + a1 * FBase + a0) * 2^-51 with 0 <= a1, a0 < FBase; the  *)
(* sign is the sign of a2 (floor form).  2^-51 is the unit in the last     *)
(* place of mm, the smallest float the program computes with; results      *)
(* smaller than 4 in magnitude that need finer bits do not arise.          *)
(***************************************************************************)
FBase == 2^21

FNorm(t) ==
    LET s1 == t[2] + (t[3] \div FBase)
    IN  <<t[1] + (s1 \div FBase), s1 % FBase, t[3] % FBase>>

FNeg(t) == FNorm(<<-t[1], -t[2], -t[3]>>)

\* the number of bits of a natural below 2^30
BitLen(n) == CHOOSE b \in 0..30 : n < 2^b /\ (b = 0 \/ 2^(b - 1) <= n)

\* round a non-negative exact value to 53 significant bits, ties to even
FRoundPos(t) ==
    LET s == BitLen(t[1]) - 11
    IN  IF s <= 0 THEN t
        ELSE LET q == 2^s
                 r == t[3] % q
                 up == (2 * r > q) \/ (2 * r = q /\ (t[3] \div q) % 2 = 1)
             IN  FNorm(<<t[1], t[2], (t[3] - r) + (IF up THEN q ELSE 0)>>)

FRound(t) == IF t[1] < 0 THEN FNeg(FRoundPos(FNeg(t))) ELSE FRoundPos(t)

\* float(n) of a small integer n
FInt(n) == <<n * 2^9, 0, 0>>

\* n * x for a small natural n, x + y, x - y, x < y as Python computes them
FMul(n, x) == FRound(FNorm(<<n * x[1], n * x[2], n * x[3]>>))
FAdd(x, y) == FRound(FNorm(<<x[1] + y[1], x[2] + y[2], x[3] + y[3]>>))
FSub(x, y) == FRound(FNorm(<<x[1] - y[1], x[2] - y[2], x[3] - y[3]>>))
FLess(x, y) ==
    \/ x[1] < y[1]
    \/ x[1] = y[1] /\ x[2] < y[2]
    \/ x[1] = y[1] /\ x[2] = y[2] /\ x[3] < y[3]

(***************************************************************************)
(* reportlab.lib.units.mm = 72.0 / 2.54 * 0.1 = 0x1.6ad5ab56ad5acp+1 and   *)
(* reportlab.lib.pagesizes.A4 = (210 * mm, 297 * mm).                      *)
(***************************************************************************)
mm == <<1451, 710059, 710060>>
A4 == <<FMul(210, mm), FMul(297, mm)>>

(***************************************************************************)
(* The layout numbers of render_workout_pdf.                               *)
(***************************************************************************)
page_h == A4[2]
margin == FMul(12, mm)
normal_gap == FMul(7, mm)
paired_gap == FMul(1, mm)

\* The numbers render_workout_pdf lays a sheet out with, as one record:
\* header is the drop from the title line to the first row, threshold the
\* room above the bottom margin below which a new page is started, row and
\* partner_row what a primary and a partner row move the cursor down by.
Geometry ==
    [page_h |-> page_h, margin |-> margin, header |-> FMul(10, mm),
     threshold |-> FMul(30, mm), row |-> FMul(8, mm),
     partner_row |-> FMul(7, mm), normal_gap |-> normal_gap,
     paired_gap |-> paired_gap]

\* y = page_h - margin - 10 * mm
PageTopY(g) == FSub(FSub(g.page_h, g.margin), g.header)

\* variant: the test leaves the 30 mm out
NeedsPageBreakAtMargin(g, yy) == FLess(yy, g.margin)

\* variant: the test also counts the height of the row about to be drawn
NeedsPageBreakWithRow(g, yy) == FLess(FSub(yy, g.row), FAdd(g.margin, g.threshold))

\* y < margin + 30 * mm
NeedsPageBreak(g, yy) == FLess(yy, FAdd(g.margin, g.threshold))

(***************************************************************************)
(* Python values.  A value that may be None is <<>> (None) or <<v>>; a     *)
(* field of a catalog row may also be float('nan') (what pandas gives for  *)
(* an empty cell), which is <<0, 0>>, told from the others by its length.  *)
(* Text that the program edits is a sequence of one-character strings.     *)
(***************************************************************************)
None == <<>>
Some(v) == <<v>>
NaN == <<0, 0>>

\* bool(v) of None or an int
Truthy(v) == v # None /\ v[1] # 0

\* any(pair)
AnyTruthy(pair) == \E k \in 1..Len(pair) : Truthy(pair[k])

Digit(d) == <<"0", "1", "2", "3", "4", "5", "6", "7", "8", "9">>[d + 1]

RECURSIVE StrNat(_)
StrNat(n) == IF n < 10 THEN <<Digit(n)>> ELSE StrNat(n \div 10) \o <<Digit(n % 10)>>

\* str(n) of an int
Str(n) == IF n < 0 THEN <<"-">> \o StrNat(-n) ELSE StrNat(n)

\* sep.join(parts)
RECURSIVE Join(_, _)
Join(sep, parts) ==
    IF parts = <<>> THEN <<>>
    ELSE IF Len(parts) = 1 THEN parts[1]
    ELSE parts[1] \o sep \o Join(sep, Tail(parts))

StartsWith(s, old) == Len(s) >= Len(old) /\ SubSeq(s, 1, Len(old)) = old

\* s.replace(old, new), old not empty: every occurrence, left to right
RECURSIVE Replace(_, _, _)
Replace(s, old, new) ==
    IF s = <<>> THEN <<>>
    ELSE IF StartsWith(s, old)
         THEN new \o Replace(SubSeq(s, Len(old) + 1, Len(s)), old, new)
         ELSE <<Head(s)>> \o Replace(Tail(s), old, new)

\* s.strip(), for text whose only whitespace is the blank
RECURSIVE Strip(_)
Strip(s) ==
    IF s = <<>> THEN s
    ELSE IF Head(s) = " " THEN Strip(Tail(s))
    ELSE IF s[Len(s)] = " " THEN Strip(SubSeq(s, 1, Len(s) - 1))
    ELSE s

(***************************************************************************)
(* find_pairs_map.  A dict of lists is a function from its keys to         *)
(* sequences.  int(None) raises TypeError.                                 *)
(***************************************************************************)
EmptyDict == [k \in {} |-> <<>>]

\* a local name that has not been assigned yet, and one assigned v
Unbound == [bound |-> FALSE, val |-> <<>>]
Bound(v) == [bound |-> TRUE, val |-> v]

\* d.setdefault(a, []).append(b)
SetDefaultAppend(d, a, b) ==
    IF a \in DOMAIN d THEN [d EXCEPT ![a] = Append(@, b)]
    ELSE [k \in DOMAIN d \cup {a} |-> IF k = a THEN <<b>> ELSE d[k]]

\* variant: a declaration is entered in the list of its first value only
FindPairsStepOneWay(r, pair) ==
    IF r.raised # "" \/ ~AnyTruthy(pair) \/ Len(pair) < 2 THEN r
    ELSE IF pair[1] = None \/ pair[2] = None
    THEN [raised |-> "TypeError", pairs |-> r.pairs]
    ELSE [raised |-> "",
          pairs |-> SetDefaultAppend(r.pairs, pair[1][1], pair[2][1])]

\* one pass of the for loop of find_pairs_map over the declaration pair
\* (r.raised is the exception raised so far, r.pairs the dict so far)
FindPairsStep(r, pair) ==
    IF r.raised # "" \/ ~AnyTruthy(pair) \/ Len(pair) < 2 THEN r
    ELSE IF pair[1] = None \/ pair[2] = None
    THEN [raised |-> "TypeError", pairs |-> r.pairs]
    ELSE LET a == pair[1][1]
             b == pair[2][1]
         IN  [raised |-> "",
              pairs |-> SetDefaultAppend(SetDefaultAppend(r.pairs, a, b), b, a)]

\* the for loop of find_pairs_map over the first n declarations
RECURSIVE FindPairsUpTo(_, _)
FindPairsUpTo(paired, n) ==
    IF n = 0 THEN [raised |-> "", pairs |-> EmptyDict]
    ELSE FindPairsStep(FindPairsUpTo(paired, n - 1), paired[n])

\* the call pairs_map = find_pairs_map(paired) of line 88:
\* [raised |-> the exception raised ("" if none),
\*  pairs |-> what the caller's name is left with: the dict returned, or
\*            nothing (the name stays unassigned) when the call raised]
find_pairs_map(paired) ==
    LET r == FindPairsUpTo(paired, Len(paired))
    IN  IF r.raised = "" THEN [raised |-> "", pairs |-> Bound(r.pairs)]
        ELSE [raised |-> r.raised, pairs |-> Unbound]

\* pairs_map.get(ex_id, [])
GetList(d, k) == IF k \in DOMAIN d THEN d[k] ELSE <<>>

(***************************************************************************)
(* _draw_exercise_entry: the meta line drawn under the name.               *)
(***************************************************************************)
\* str(rest) of an int or nan
StrRest(rest) == IF rest = NaN THEN <<"n", "a", "n">> ELSE Str(rest[1])

\* reps is bound text, rest None, an int or nan, comment text
MetaParts(reps, comment, rest) ==
    <<Replace(reps, <<"-", "9", "9">>, <<"+">>) \o <<" ", "r", "e", "p", "s">>>>
    \o (IF rest # None
        THEN <<StrRest(rest) \o <<"s", " ", "r", "e", "s", "t">>>>
        ELSE <<>>)
    \o (IF comment # <<>> THEN <<comment>> ELSE <<>>)

(***************************************************************************)
(* render_workout_pdf: the pieces of one loop iteration.                   *)
(***************************************************************************)
\* ex.get(key, default) and ex.get(key)
Get(ex, key, default) == IF key \in DOMAIN ex THEN ex[key] ELSE default

\* f"{v}" of a name: None, nan or a str
Format(v) == IF v = None THEN "None" ELSE IF v = NaN THEN "nan" ELSE v[1]

\* the else branch of the lookup, lines 104-108, for the row ex: the values
\* assigned, and the exception raised ("" if none).  int(None) and
\* map(str, v) of a v that is no list raise TypeError, int(nan) ValueError,
\* nan.strip() AttributeError; reps keeps its value (prev) when the
\* exception comes before its assignment.
LookupRow(ex, ex_id, prev) ==
    LET name == Get(ex, "name", Some("#" \o ToString(ex_id)))
        sets == Get(ex, "sets", Some(3))
        rps == Get(ex, "reps", None)
        cmt == Get(ex, "comment", None)
        exc == IF sets = None THEN "TypeError"
               ELSE IF sets = NaN THEN "ValueError"
               ELSE IF rps = None \/ rps = NaN THEN "TypeError"
               ELSE IF cmt = NaN THEN "AttributeError"
               ELSE ""
    IN  [raised |-> exc,
         ex_name |-> Format(name),
         sets |-> IF sets = None \/ sets = NaN THEN 0 ELSE sets[1],
         reps |-> IF exc \in {"", "AttributeError"}
                  THEN Bound(Join(<<"-">>, [k \in 1..Len(rps[1]) |-> Str(rps[1][k])]))
                  ELSE prev,
         comment |-> IF cmt = None \/ cmt = NaN THEN <<>> ELSE Strip(cmt[1]),
         rest |-> Get(ex, "rest", None)]

\* ex = exercises_map.get(ex_id) and the if/else after it: the values of
\* ex_name, sets, reps, comment, rest when the row is drawn, and the
\* exception the lookup raised ("" if none).  The missing branch assigns no
\* reps, which keeps the value it had (prev).
Lookup(emap, ex_id, prev) ==
    IF ex_id \notin DOMAIN emap
    THEN [raised |-> "",
          ex_name |-> "Exercise #" \o ToString(ex_id) \o " (missing)",
          sets |-> 3, reps |-> prev, comment |-> <<>>, rest |-> None]
    ELSE LookupRow(emap[ex_id], ex_id, prev)

\* variant: the loop walks the list from its end
CurrentExerciseBackwards(exs, i) == exs[Len(exs) + 1 - i]

\* for ex_id in exercises: the exercise the loop is at
CurrentExercise(exs, i) == exs[i]

\* variant: partners already rendered are taken again
PartnersIgnoringRendered(d, ex_id, exs, rend) ==
    SelectSeq(GetList(d, ex_id), LAMBDA p : \E k \in 1..Len(exs) : exs[k] = p)

\* variants: the partners taken in the opposite order; the first partner only
PartnersReversed(d, ex_id, exs, rend) ==
    LET ps == SelectSeq(GetList(d, ex_id),
                        LAMBDA p : (\E k \in 1..Len(exs) : exs[k] = p) /\ p \notin rend)
    IN  [k \in 1..Len(ps) |-> ps[Len(ps) + 1 - k]]

PartnersFirstOnly(d, ex_id, exs, rend) ==
    LET ps == SelectSeq(GetList(d, ex_id),
                        LAMBDA p : (\E k \in 1..Len(exs) : exs[k] = p) /\ p \notin rend)
    IN  IF ps = <<>> THEN ps ELSE <<ps[1]>>

\* partners = [p for p in pairs_map.get(ex_id, []) if p in exercises and p not in rendered]
Partners(d, ex_id, exs, rend) ==
    SelectSeq(GetList(d, ex_id),
              LAMBDA p : (\E k \in 1..Len(exs) : exs[k] = p) /\ p \notin rend)

\* the row _draw_exercise_entry draws: its arguments, where it is drawn,
\* which call drew it (role) and for which primary (block)
Entry(ex_id, f, role, block, pg, yy) ==
    [ex_id |-> ex_id, ex_name |-> f.ex_name, sets |-> f.sets,
     reps |-> f.reps.val, comment |-> f.comment, rest |-> f.rest,
     meta |-> MetaParts(f.reps.val, f.comment, f.rest),
     role |-> role, block |-> block, page |-> pg, y |-> yy]

\* variant: the page index steps back
ShowPageBack(pg) == pg - 1

\* c.showPage(): the index of the page begun after page pg
ShowPage(pg) == pg + 1

\* variant: the title of a new page is drawn before the page is begun
TitleBeforeShowPage(pg, n) == [page |-> IF pg = 0 THEN 0 ELSE pg - 1, rows_before |-> n]

\* the title drawn on page pg after n rows have been drawn
Title(pg, n) == [page |-> pg, rows_before |-> n]

\* y after a primary row, after a partner row, and after the block
AfterPrimary(g, yy) == FSub(yy, g.row)
AfterPartner(g, yy) == FSub(yy, g.partner_row)
AfterPairedBlock(g, yy) == FSub(FSub(yy, g.paired_gap), g.normal_gap)
AfterSingleBlock(g, yy) == FSub(yy, g.normal_gap)

(***************************************************************************)
(* The inputs: workouts and exercise catalogs.                             *)
(***************************************************************************)
Ids == 1..MaxId

SeqsUpTo(S, n) == UNION {[1..k -> S] : k \in 0..n}

\* exercise lists up to a renaming of the identifiers: each identifier is
\* at most one above the largest before it
Canonical(e) ==
    \A k \in 1..Len(e) : \A v \in 2..e[k] : \E h \in 1..(k - 1) : e[h] = v - 1

SmallExercises == {e \in SeqsUpTo(Ids, MaxExLen) : e = <<>> \/ (e[1] = 1 /\ Canonical(e))}

\* the longest exercise list without repeats, up to a renaming
PlainExercises == {[k \in 1..MaxExLen |-> k]}

\* pair declarations of two identifiers, self-pairs included
IntPairs == {<<Some(a), Some(b)>> : a, b \in Ids}

\* chains of declarations, one longer than the other families have: the
\* sequences of MaxPairs + 1 different pairs (a, b) with a < b, the pairs of
\* a sequence in ascending order (by a, then by b)
ChainDecls ==
    LET ordered == {d \in IntPairs : d[1][1] < d[2][1]}
        Before(d, e) == d[1][1] < e[1][1] \/ (d[1][1] = e[1][1] /\ d[2][1] < e[2][1])
    IN  {p \in [1..(MaxPairs + 1) -> ordered] :
            \A i \in 1..MaxPairs : Before(p[i], p[i + 1])}

\* any declaration of at most two values, each None or an int (0 is falsy),
\* and one of three values
AnyDecls ==
    SeqsUpTo({None} \cup {Some(v) : v \in 0..MaxDeclId}, 2)
        \cup {<<Some(1), Some(2), Some(1)>>}

\* a row without the key
Drop(row, key) == [k \in DOMAIN row \ {key} |-> row[k]]

\* a well-formed row of the exercises table; the rows of even id have no
\* sets
PlainRow(id) ==
    LET row == [name |-> Some("Ex" \o ToString(id)),
                sets |-> Some(4),
                reps |-> Some(CASE id % 3 = 0 -> <<5, -99>>
                                [] id % 3 = 1 -> <<8, 12>>
                                [] OTHER -> <<8, 99>>),
                comment |-> IF id % 3 = 1 THEN Some(<<" ", "s", "l", "o", "w">>) ELSE None,
                rest |-> IF id % 2 = 1 THEN Some(60) ELSE None]
    IN  IF id % 2 = 0 THEN Drop(row, "sets") ELSE row

\* the identifiers of the rows with an empty or absent cell
DefectIds == 101..112

\* the row of such an identifier
DefectRow(id) ==
    LET row == [name |-> Some("Ex" \o ToString(id)), sets |-> Some(4),
                reps |-> Some(<<8, 12>>), comment |-> None, rest |-> Some(60)]
    IN  CASE id = 101 -> [row EXCEPT !.sets = None]
          [] id = 102 -> [row EXCEPT !.sets = NaN]
          [] id = 103 -> [row EXCEPT !.reps = None]
          [] id = 104 -> Drop(row, "reps")
          [] id = 105 -> [row EXCEPT !.reps = NaN]
          [] id = 106 -> [row EXCEPT !.comment = NaN]
          [] id = 107 -> [row EXCEPT !.rest = NaN]
          [] id = 108 -> Drop(row, "name")
          [] id = 109 -> [row EXCEPT !.name = None]
          [] id = 110 -> [row EXCEPT !.name = NaN]
          [] id = 111 -> [row EXCEPT !.reps = Some(<<>>), !.comment = Some(<<>>)]
          [] OTHER -> Drop(Drop(row, "comment"), "rest")

\* a row of the exercises table
CatalogRow(id) == IF id \in DefectIds THEN DefectRow(id) ELSE PlainRow(id)

\* exercises_map = {int(e["id"]): e for e in exercises}
Catalog(ids) == [i \in ids |-> CatalogRow(i)]

Workout(exs, paired, emap) ==
    [exercises |-> exs, paired_sets |-> paired, exercises_map |-> emap]

\* the example workouts of the specification: a pair that reorders, and an
\* exercise 99 that the catalog does not have
PairExample == Workout(<<1, 2, 3, 4>>, <<<<Some(2), Some(4)>>>>, Catalog(1..4))
MissingExample == Workout(<<1, 99>>, <<>>, Catalog({1}))
ExampleWorkouts == {PairExample, MissingExample}

\* workouts of exercise 1 and an exercise d whose row has an empty or absent
\* cell: d after 1, d before 1, and d as the partner of 1
DefectWorkouts ==
    UNION {{Workout(<<1, d>>, <<>>, Catalog({1, d})),
            Workout(<<d, 1>>, <<>>, Catalog({1, d})),
            Workout(<<1, d>>, <<<<Some(1), Some(d)>>>>, Catalog({1, d}))} : d \in DefectIds}

\* long workouts 1..n: m1 blocks of k1 partners, then m2 blocks of k2
BlockPairs(first, k) == [j \in 1..k |-> <<Some(first), Some(first + j)>>]

RECURSIVE PatternPairs(_, _, _)
PatternPairs(first, k, m) ==
    IF m = 0 THEN <<>>
    ELSE BlockPairs(first, k) \o PatternPairs(first + k + 1, k, m - 1)

LongWorkout(k1, m1, k2, m2) ==
    LET n1 == m1 * (k1 + 1)
        n == n1 + m2 * (k2 + 1)
    IN  Workout([i \in 1..n |-> i],
                PatternPairs(1, k1, m1) \o PatternPairs(n1 + 1, k2, m2),
                Catalog(1..n))

LongShapes ==
    {s \in (0..MaxPartners) \X (0..MaxBlocks) \X (0..MaxPartners) \X (0..MaxBlocks) :
        s[2] + s[4] <= MaxBlocks}

LongWorkouts == {LongWorkout(s[1], s[2], s[3], s[4]) : s \in LongShapes}

(***************************************************************************)
(* The state of one call of render_workout_pdf(workout, exercises_map, _). *)
(***************************************************************************)
VARIABLES
    workout,        \* the arguments: exercises, paired_sets, exercises_map
    geo,            \* the layout numbers
    pc,             \* "start", "loop", "partners", "done" or "raised"
    raised,         \* the exception the call ended with, "" if none
    exercises,      \* workout's exercises as ints
    pairs_map,      \* the local pairs_map (unassigned until line 88 returns)
    rendered,       \* the set rendered
    idx,            \* position of the for loop in exercises
    partners,       \* the partners list of the block being drawn
    pidx,           \* position of the inner for loop in partners
    reps,           \* the local reps
    partner_reps,   \* the local partner_reps
    y,              \* the cursor
    page,           \* pages shown so far (index of the current page)
    titles,         \* the title draws
    out             \* the rows drawn

vars == <<workout, geo, pc, raised, exercises, pairs_map, rendered, idx,
          partners, pidx, reps, partner_reps, y, page, titles, out>>

\* the state render_workout_pdf is entered in, laying out with the numbers g
Entered(g) ==
    /\ geo = g
    /\ pc = "start"
    /\ raised = ""
    /\ exercises = <<>>
    /\ pairs_map = Unbound
    /\ rendered = {}
    /\ idx = 1
    /\ partners = <<>>
    /\ pidx = 1
    /\ reps = Unbound
    /\ partner_reps = Unbound
    /\ y = FInt(0)
    /\ page = 0
    /\ titles = <<>>
    /\ out = <<>>

\* The workouts rendered: small workouts without repeats, with well-formed
\* declarations and every exercise known; workouts with any declarations;
\* small workouts whose exercises may repeat, with exercises missing from
\* the catalog or with a pair; workouts with a pair and exercises missing
\* from the catalog; workouts with a chain of declarations; the examples of
\* the specification; workouts with a row that has an empty or absent cell;
\* the long workouts.
Init ==
    /\ \/ \E e \in PlainExercises, p \in SeqsUpTo(IntPairs, MaxPairs) :
            workout = Workout(e, p, Catalog(Ids))
       \/ \E p \in SeqsUpTo(AnyDecls, MaxPairs) :
            workout = Workout([k \in 1..MaxDeclId |-> k], p, Catalog(Ids))
       \/ \E e \in SmallExercises, S \in SUBSET Ids :
            workout = Workout(e, <<>>, Catalog(S))
       \/ \E e \in SmallExercises, p \in IntPairs :
            workout = Workout(e, <<p>>, Catalog(Ids))
       \/ \E p \in IntPairs, S \in SUBSET Ids :
            workout = Workout([k \in 1..MaxExLen |-> k], <<p>>, Catalog(S))
       \/ \E e \in PlainExercises, p \in ChainDecls :
            workout = Workout(e, p, Catalog(Ids))
       \/ workout \in ExampleWorkouts
       \/ workout \in DefectWorkouts
       \/ workout \in LongWorkouts
    /\ Entered(Geometry)

\* lines 77-92: the title of the first page, the cursor, the pairs map
Start ==
    /\ pc = "start"
    /\ LET r == find_pairs_map(workout.paired_sets)
       IN  /\ titles' = Append(titles, Title(page, Len(out)))
           /\ y' = PageTopY(geo)
           /\ exercises' = workout.exercises
           /\ pairs_map' = r.pairs
           /\ raised' = r.raised
           /\ pc' = IF r.raised = "" THEN "loop" ELSE "raised"
    /\ UNCHANGED <<workout, geo, rendered, idx, partners, pidx, reps,
                   partner_reps, page, out>>

\* lines 94-96: an exercise already rendered is passed over
SkipRendered ==
    /\ pc = "loop"
    /\ idx <= Len(exercises)
    /\ CurrentExercise(exercises, idx) \in rendered
    /\ idx' = idx + 1
    /\ UNCHANGED <<workout, geo, pc, raised, exercises, pairs_map, rendered,
                   partners, pidx, reps, partner_reps, y, page, titles, out>>

\* lines 97-124 and, for a block without partners, 153: the primary row
DrawPrimary ==
    /\ pc = "loop"
    /\ idx <= Len(exercises)
    /\ CurrentExercise(exercises, idx) \notin rendered
    /\ LET ex_id == CurrentExercise(exercises, idx)
           f == Lookup(workout.exercises_map, ex_id, reps)
           brk == NeedsPageBreak(geo, y)
           pg == IF brk THEN ShowPage(page) ELSE page
           y0 == IF brk THEN PageTopY(geo) ELSE y
           rend == rendered \cup {ex_id}
           ps == Partners(pairs_map.val, ex_id, exercises, rend)
       IN  /\ reps' = f.reps
           /\ page' = IF f.raised # "" THEN page ELSE pg
           /\ titles' = IF f.raised = "" /\ brk
                        THEN Append(titles, Title(pg, Len(out))) ELSE titles
           /\ IF f.raised # ""
              THEN \* lines 105-107 raise, before the page break test
                   /\ raised' = f.raised
                   /\ pc' = "raised"
                   /\ UNCHANGED <<rendered, idx, partners, pidx, y, out>>
              ELSE IF ~f.reps.bound
              THEN \* line 118 reads reps before any assignment
                   /\ raised' = "UnboundLocalError"
                   /\ pc' = "raised"
                   /\ y' = y0
                   /\ UNCHANGED <<rendered, idx, partners, pidx, out>>
              ELSE /\ out' = Append(out, Entry(ex_id, f, "primary", ex_id, pg, y0))
                   /\ rendered' = rend
                   /\ partners' = ps
                   /\ pidx' = 1
                   /\ raised' = raised
                   /\ IF ps = <<>>
                      THEN /\ y' = AfterSingleBlock(geo, AfterPrimary(geo, y0))
                           /\ idx' = idx + 1
                           /\ pc' = "loop"
                      ELSE /\ y' = AfterPrimary(geo, y0)
                           /\ idx' = idx
                           /\ pc' = "partners"
    /\ UNCHANGED <<workout, geo, exercises, pairs_map, partner_reps>>

\* lines 125-149 and, after the last partner, 151-153: one partner row
DrawPartner ==
    /\ pc = "partners"
    /\ LET partner_id == partners[pidx]
           f == Lookup(workout.exercises_map, partner_id, partner_reps)
           brk == NeedsPageBreak(geo, y)
           pg == IF brk THEN ShowPage(page) ELSE page
           y0 == IF brk THEN PageTopY(geo) ELSE y
       IN  /\ partner_reps' = f.reps
           /\ page' = IF f.raised # "" THEN page ELSE pg
           /\ titles' = IF f.raised = "" /\ brk
                        THEN Append(titles, Title(pg, Len(out))) ELSE titles
           /\ IF f.raised # ""
              THEN \* lines 134-136 raise, before the page break test
                   /\ raised' = f.raised
                   /\ pc' = "raised"
                   /\ UNCHANGED <<rendered, idx, pidx, y, out>>
              ELSE IF ~f.reps.bound
              THEN \* line 147 reads partner_reps before any assignment
                   /\ raised' = "UnboundLocalError"
                   /\ pc' = "raised"
                   /\ y' = y0
                   /\ UNCHANGED <<rendered, idx, pidx, out>>
              ELSE /\ out' = Append(out, Entry(partner_id, f, "partner",
                                              CurrentExercise(exercises, idx), pg, y0))
                   /\ rendered' = rendered \cup {partner_id}
                   /\ raised' = raised
                   /\ IF pidx = Len(partners)
                      THEN /\ y' = AfterPairedBlock(geo, AfterPartner(geo, y0))
                           /\ idx' = idx + 1
                           /\ pidx' = pidx
                           /\ pc' = "loop"
                      ELSE /\ y' = AfterPartner(geo, y0)
                           /\ idx' = idx
                           /\ pidx' = pidx + 1
                           /\ pc' = "partners"
    /\ UNCHANGED <<workout, geo, exercises, pairs_map, partners, reps>>

\* line 155: c.save()
Save ==
    /\ pc = "loop"
    /\ idx > Len(exercises)
    /\ pc' = "done"
    /\ UNCHANGED <<workout, geo, raised, exercises, pairs_map, rendered, idx,
                   partners, pidx, reps, partner_reps, y, page, titles, out>>

Next == Start \/ SkipRendered \/ DrawPrimary \/ DrawPartner \/ Save

Spec == Init /\ [][Next]_vars

(***************************************************************************)
(* What is read off a state to state the properties.                       *)
(***************************************************************************)
\* the identifiers emitted, in emission order
OutIds == [k \in 1..Len(out) |-> out[k].ex_id]

\* the identifiers of the workout's exercise list
ListedIds == {workout.exercises[k] : k \in 1..Len(workout.exercises)}

\* the positions at which id has been emitted
Emitted(id) == {k \in 1..Len(out) : out[k].ex_id = id}

\* the first position of id in the workout's exercise list
FirstIndex(id) ==
    CHOOSE k \in 1..Len(workout.exercises) :
        /\ workout.exercises[k] = id
        /\ \A h \in 1..(k - 1) : workout.exercises[h] # id

Min(S) == CHOOSE m \in S : \A n \in S : m <= n
Max(S) == CHOOSE m \in S : \A n \in S : n <= m

\* the last position of the block whose primary entry is at position k
BlockEnd(k) ==
    CHOOSE j \in k..Len(out) :
        /\ \A h \in (k + 1)..j : out[h].role = "partner"
        /\ j = Len(out) \/ out[j + 1].role = "primary"

\* the partner identifiers emitted after the primary entry at position k
PartnerRun(k) == [h \in 1..(BlockEnd(k) - k) |-> out[k + h].ex_id]

IsPrefix(s, t) == Len(s) <= Len(t) /\ SubSeq(t, 1, Len(s)) = s

\* the identifiers of the workout that a declaration pairs with id
Neighbours(id) ==
    {GetList(pairs_map.val, id)[k] : k \in 1..Len(GetList(pairs_map.val, id))} \cap ListedIds

\* the identifiers of the workout connected to those of S through declarations
RECURSIVE Reach(_)
Reach(S) ==
    LET T == S \cup UNION {Neighbours(i) : i \in S}
    IN  IF T = S THEN S ELSE Reach(T)

\* the catalog does not have id
Missing(id) == id \notin DOMAIN workout.exercises_map

(***************************************************************************)
(* The properties.                                                         *)
(***************************************************************************)
\* C1 (Partition): when render_workout_pdf has finished, every identifier
\* of the workout's exercise list has been emitted exactly once, and no
\* other identifier has been emitted.  The program violates it: a pair that
\* is declared twice puts the partner twice in the adjacency list, and the
\* partner is then drawn twice.
Partition ==
    pc = "done" =>
        /\ \A id \in ListedIds : Cardinality(Emitted(id)) = 1
        /\ \A k \in 1..Len(out) : out[k].ex_id \in ListedIds

\* C2 (Contiguity): a partner entry directly follows an entry of its own
\* block, the block starting at its primary entry; and the partners that
\* follow a primary are emitted in the order of the primary's adjacency list
\* (all of them once the block is complete, the first of them while the
\* block is being drawn).
Contiguity ==
    \A k \in 1..Len(out) :
        /\ out[k].role = "partner" => k > 1 /\ out[k - 1].block = out[k].block
        /\ out[k].role = "primary" =>
            LET run == PartnerRun(k)
                adj == SelectSeq(GetList(pairs_map.val, out[k].ex_id),
                                 LAMBDA p : \E h \in 1..Len(run) : run[h] = p)
                complete == BlockEnd(k) < Len(out) \/ pc \in {"loop", "done"}
            IN  /\ out[k].block = out[k].ex_id
                /\ IsPrefix(run, adj)
                /\ complete => run = adj

\* a finished sheet with a block of two different partners followed by
\* another block
ContiguityWitness ==
    /\ pc = "done"
    /\ \E k \in 1..Len(out) :
        /\ out[k].role = "primary"
        /\ Len(PartnerRun(k)) = 2
        /\ PartnerRun(k)[1] # PartnerRun(k)[2]
        /\ BlockEnd(k) < Len(out)

\* the first position, in the exercise list, of a member of the block whose
\* primary entry is at position k
BlockFirst(k) == Min({FirstIndex(out[h].ex_id) : h \in k..BlockEnd(k)})

\* C3 (Block order): on a finished sheet the blocks are in the order of the
\* first occurrence, in the exercise list, of any of their members (every
\* block comes first in the list before the block emitted next); and the
\* exercises 1, 2, 3, 4 with the single pair (2, 4) give the blocks (1),
\* (2 with partner 4), (3): the entries 1, 2, 4, 3.
BlockOrder ==
    pc = "done" =>
        /\ \A k \in 1..Len(out) :
            (out[k].role = "primary" /\ BlockEnd(k) < Len(out))
                => BlockFirst(k) < BlockFirst(BlockEnd(k) + 1)
        /\ workout = PairExample =>
            /\ OutIds = <<1, 2, 4, 3>>
            /\ [k \in 1..Len(out) |-> out[k].role]
                   = <<"primary", "primary", "partner", "primary">>

\* the finished sheet of the example, reordered by its pair
BlockOrderWitness ==
    pc = "done" /\ workout = PairExample /\ OutIds = <<1, 2, 4, 3>>

\* C4 (a dangling reference never aborts): when an identifier of the
\* exercise list is not in the catalog, render_workout_pdf does not raise
\* and, once finished, has emitted every identifier of the list.  The
\* program violates it: the missing branch assigns no reps, so a missing
\* exercise that comes before any known one raises UnboundLocalError.
DanglingNeverAborts ==
    (\E id \in ListedIds : Missing(id)) =>
        /\ pc # "raised"
        /\ pc = "done" => \A id \in ListedIds : Emitted(id) # {}

\* C5 (Placeholder fields): an identifier of the workout that the catalog
\* does not have is emitted once, under the name "Exercise #<id> (missing)",
\* with 3 sets and with no reps, no comment and no rest in its meta line.
\* The program violates it: the placeholder is drawn with the reps of the
\* exercise looked up before it.
PlaceholderFields ==
    /\ \A k \in 1..Len(out) :
        Missing(out[k].ex_id) =>
            /\ out[k].ex_name = "Exercise #" \o ToString(out[k].ex_id) \o " (missing)"
            /\ out[k].sets = 3
            /\ out[k].comment = <<>>
            /\ out[k].rest = None
            /\ out[k].meta = <<>>
    /\ pc = "done" =>
        \A id \in ListedIds : Missing(id) => Cardinality(Emitted(id)) = 1

\* a declaration that is empty, has fewer than two values that are not
\* None, or pairs a value with itself
Malformed(pair) ==
    \/ Len(pair) = 0
    \/ Cardinality({k \in 1..Len(pair) : pair[k] # None}) < 2
    \/ Len(pair) >= 2 /\ pair[1] = pair[2]

\* C6 (Malformed declarations are skipped): find_pairs_map does not raise,
\* and returns the adjacency map of the declarations that are not malformed,
\* the malformed ones adding nothing to it.  The program violates it: a
\* self-pair (a, a) adds a twice to the list of a, and a declaration with
\* an int and a None raises TypeError.
MalformedSkipped ==
    pc # "start" =>
        /\ find_pairs_map(workout.paired_sets).raised = ""
        /\ pairs_map =
               find_pairs_map(SelectSeq(workout.paired_sets,
                                        LAMBDA d : ~Malformed(d))).pairs

\* two declarations of the same pair of different ints, in the same order or
\* reversed
SamePair(d, e) ==
    /\ Len(d) = 2 /\ Len(e) = 2
    /\ \A k \in 1..2 : d[k] # None /\ e[k] # None
    /\ d[1] # d[2]
    /\ d = e \/ (d[1] = e[2] /\ d[2] = e[1])

\* the sequence s without its element at position j
Without(s, j) == SubSeq(s, 1, j - 1) \o SubSeq(s, j + 1, Len(s))

\* C7 (Idempotent pairing input): when a pair is declared twice, in the
\* same order or reversed, find_pairs_map returns the adjacency map it
\* returns for the declarations without the second of the two.  The program
\* violates it: every declaration appends again to both lists.
IdempotentPairing ==
    (pc # "start" /\ raised = "") =>
        \A i, j \in 1..Len(workout.paired_sets) :
            (i < j /\ SamePair(workout.paired_sets[i], workout.paired_sets[j]))
                => pairs_map = find_pairs_map(Without(workout.paired_sets, j)).pairs

\* C8 (Transitive grouping), as the specification states it: on a finished
\* sheet, the identifiers of the workout connected (through any number of
\* declarations) to an exercise that is in more than one pair occupy
\* adjacent positions, the first of them being the member that comes first
\* in the exercise list.
TransitiveGrouping ==
    pc = "done" =>
        \A id \in ListedIds :
            Cardinality(Neighbours(id) \ {id}) > 1 =>
                LET group == Reach({id})
                    pos == UNION {Emitted(g) : g \in group}
                IN  /\ pos = Min(pos)..Max(pos)
                    /\ \A g \in group :
                           FirstIndex(out[Min(pos)].ex_id) <= FirstIndex(g)

\* C8, as the program has it: on a finished sheet, the partners emitted
\* right after a primary are exactly the identifiers of the workout that a
\* declaration pairs with the primary itself and that were not emitted
\* before; each of them comes after the primary in the exercise list.  An
\* identifier connected to the primary only through one of its partners is
\* not drawn into the block; like every identifier of the workout it is
\* emitted, as a primary or as a partner of a primary that a declaration
\* pairs it with.
DirectGrouping ==
    pc = "done" =>
        /\ \A k \in 1..Len(out) :
            out[k].role = "primary" =>
                LET before == {out[h].ex_id : h \in 1..k}
                    inblock == {out[h].ex_id : h \in (k + 1)..BlockEnd(k)}
                IN  /\ inblock = Neighbours(out[k].ex_id) \ before
                    /\ \A q \in inblock :
                           FirstIndex(out[k].ex_id) < FirstIndex(q)
        /\ \A id \in ListedIds : Emitted(id) # {}
        /\ \A k \in 1..Len(out) :
            out[k].role = "partner" => out[k].ex_id \in Neighbours(out[k].block)

\* the exercises 1, 2, 3, 4 with the pairs (1, 3) and (3, 4): 4 is connected
\* to 1 through 3 only, and 2 is emitted between 3 and 4
DirectGroupingWitness ==
    /\ pc = "done"
    /\ OutIds = <<1, 3, 2, 4>>
    /\ GetList(pairs_map.val, 3) = <<1, 4>>
    /\ [k \in 1..Len(out) |-> out[k].role]
           = <<"primary", "partner", "primary", "primary">>

\* C9 (Break trigger): whenever a row is drawn, a page was begun right
\* before it if and only if the cursor was below margin + 30 mm; the row is
\* drawn on the current page, at page_h - margin - 10 mm if a page was
\* begun and at the cursor otherwise.
BreakTrigger ==
    [][Len(out') > Len(out) =>
        LET e == out'[Len(out')]
            broke == page' # page
        IN  /\ Len(out') = Len(out) + 1
            /\ page' \in {page, page + 1}
            /\ broke <=> FLess(y, FAdd(margin, FMul(30, mm)))
            /\ e.page = page'
            /\ e.y = IF broke THEN FSub(FSub(page_h, margin), FMul(10, mm)) ELSE y
      ]_vars

\* a partner row that is the first row of the second page
BreakTriggerWitness ==
    \E k \in 2..Len(out) :
        /\ out[k].role = "partner"
        /\ out[k].page = 1
        /\ out[k - 1].page = 0
        /\ out[k].y = FSub(FSub(page_h, margin), FMul(10, mm))

\* C11 (Header on every page): once the sheet is begun, the titles drawn
\* are one per page, in page order, the first on the first page; and every
\* row of a page is drawn after the title of that page.
HeaderEveryPage ==
    pc # "start" =>
        /\ Len(titles) = page + 1
        /\ \A k \in 1..Len(titles) : titles[k].page = k - 1
        /\ \A h \in 1..Len(out) :
            /\ out[h].page \in 0..page
            /\ titles[out[h].page + 1].rows_before < h

\* a sheet of two pages with rows on both
HeaderEveryPageWitness ==
    /\ page = 1
    /\ Len(titles) = 2
    /\ titles[2].rows_before > 0
    /\ \E h \in 1..Len(out) : out[h].page = 1

MapIds ==
    DOMAIN pairs_map.val
        \cup UNION {{pairs_map.val[a][k] : k \in 1..Len(pairs_map.val[a])} :
                        a \in DOMAIN pairs_map.val}

\* how many times v is in the list s
Occurrences(s, v) == Cardinality({k \in 1..Len(s) : s[k] = v})

\* C13 (Adjacency symmetry): in the map find_pairs_map has returned, b is in
\* the list of a if and only if a is in the list of b, for all identifiers
\* a and b; and for different a and b, as many times.
AdjacencySymmetry ==
    pairs_map.bound =>
        \A a, b \in MapIds :
            LET ab == Occurrences(GetList(pairs_map.val, a), b)
                ba == Occurrences(GetList(pairs_map.val, b), a)
            IN  /\ ab > 0 <=> ba > 0
                /\ a # b => ab = ba

\* the map of two declarations that pair 1 with 2 and then with 3, returned
\* without an exception
AdjacencySymmetryWitness ==
    /\ pc = "loop"
    /\ raised = ""
    /\ pairs_map.bound
    /\ GetList(pairs_map.val, 1) = <<2, 3>>
    /\ GetList(pairs_map.val, 2) = <<1>>
    /\ GetList(pairs_map.val, 3) = <<1>>

\* C14 (One-hop expansion): rendered is the set of the identifiers emitted;
\* the partners that follow a primary are the primary's own adjacency list
\* with the identifiers taken out that are not in the exercise list or that
\* were emitted up to the primary (all of these partners once the block is
\* complete, the first of them while it is being drawn).  So the partners
\* of a partner are not drawn into the block, and a primary whose adjacency
\* list holds only identifiers emitted before it has no partners.
OneHopExpansion ==
    /\ rendered = {out[h].ex_id : h \in 1..Len(out)}
    /\ \A k \in 1..Len(out) :
        out[k].role = "primary" =>
            LET before == {out[h].ex_id : h \in 1..k}
                direct == SelectSeq(GetList(pairs_map.val, out[k].ex_id),
                                    LAMBDA q : q \in ListedIds /\ q \notin before)
                complete == BlockEnd(k) < Len(out) \/ pc \in {"loop", "done"}
            IN  /\ IsPrefix(PartnerRun(k), direct)
                /\ complete => PartnerRun(k) = direct
                /\ (complete /\ Neighbours(out[k].ex_id) \subseteq before)
                       => BlockEnd(k) = k

\* the exercises 1, 2, 3, 4 with the pairs (1, 2) and (2, 4): 4, a partner
\* of the partner 2, is not in the block of 1, and later starts a block of
\* its own, without partners, its only partner 2 being rendered
OneHopExpansionWitness ==
    /\ pc = "done"
    /\ OutIds = <<1, 2, 3, 4>>
    /\ [k \in 1..Len(out) |-> out[k].role]
           = <<"primary", "partner", "primary", "primary">>
    /\ GetList(pairs_map.val, 2) = <<1, 4>>
    /\ GetList(pairs_map.val, 4) = <<2>>

\* what the row at position k moves the cursor down by
RowHeight(k) == IF out[k].role = "primary" THEN geo.row ELSE geo.partner_row

\* the cursor before the row at position k > 1 is placed, from the row drawn
\* before it: below that row, and below the gap of its block if the row at
\* k starts a block
CursorBefore(k) ==
    LET below == IF out[k - 1].role = "primary"
                 THEN AfterPrimary(geo, out[k - 1].y)
                 ELSE AfterPartner(geo, out[k - 1].y)
    IN  IF out[k].role = "partner" THEN below
        ELSE IF out[k - 1].role = "partner" THEN AfterPairedBlock(geo, below)
        ELSE AfterSingleBlock(geo, below)

\* a page is begun between the rows at positions k - 1 and k
BreakBefore(k) == out[k].page # out[k - 1].page

\* C15 (the break check includes the entry height), as the specification
\* states it: a page is begun before a row exactly when the cursor less the
\* height of the row is below margin + 30 mm.
EntryHeightBreak ==
    \A k \in 2..Len(out) :
        BreakBefore(k)
            <=> FLess(FSub(CursorBefore(k), RowHeight(k)),
                      FAdd(geo.margin, geo.threshold))

\* C15, as the program has it: a page is begun before a row exactly when
\* the cursor itself is below margin + 30 mm, the height of the row not
\* being counted; every row is placed at margin + 30 mm or above, so that
\* the row, being lower than 30 mm, still ends above the bottom margin.
CursorBreak ==
    LET limit == FAdd(geo.margin, geo.threshold)
    IN  /\ \A k \in 2..Len(out) :
            BreakBefore(k) <=> FLess(CursorBefore(k), limit)
        /\ \A k \in 1..Len(out) :
            /\ ~FLess(out[k].y, limit)
            /\ FLess(geo.margin, FSub(out[k].y, RowHeight(k)))

\* a row placed on the page of the row before it although the cursor less
\* its height is below margin + 30 mm
CursorBreakWitness ==
    \E k \in 2..Len(out) :
        /\ ~BreakBefore(k)
        /\ FLess(FSub(CursorBefore(k), RowHeight(k)), FAdd(geo.margin, geo.threshold))
        /\ out[k].y = CursorBefore(k)
====
